---- MODULE Spec2Model ----
(***************************************************************************)
(* Model of 02_Creational_Patterns/singleton_exercise.py.                  *)
(*                                                                         *)
(*   def is_singleton(factory):                                            *)
(*       x = factory()                                                     *)
(*       y = factory()                                                     *)
(*       return x is y                                                     *)
(*                                                                         *)
(* Objects live in a heap; an object's identity is its index in the heap,  *)
(* its contents the list stored there.  A factory is a zero-argument       *)
(* callable; the two factories of Evaluate.test_exercise are modelled      *)
(* together with other callables is_singleton accepts (stateful ones,      *)
(* mutating ones and ones that raise).                                     *)
(***************************************************************************)
EXTENDS Integers, Sequences, FiniteSets, TLC

VARIABLES
    heap,      \* heap[i]: contents (a list of integers) of the object with identity i
    ncalls,    \* ncalls[p]: how many times factory p has been invoked so far
    cache,     \* cache[p]: the object a caching factory holds (None when it holds none)
    pc,        \* position of the caller / of is_singleton
    factory,   \* the argument of the running (or last) call of is_singleton
    x,         \* local x of is_singleton (None while unbound)
    y,         \* local y of is_singleton (None while unbound)
    result,    \* <<b>> once is_singleton has returned b, <<>> otherwise
    exc,       \* the exception that left is_singleton, NoExc when none did
    log,       \* history: the factory invocations made by the current call
    trace      \* history: one entry per finished call of is_singleton

vars == <<heap, ncalls, cache, pc, factory, x, y, result, exc, log, trace>>

\* ------------------------------------------------------------------ bounds

MaxChecks == 4

\* --------------------------------------------------------------- constants

None == 0
NoExc == <<>>
NoResult == <<>>

\* obj of test_exercise is the first object of the heap; Obj2Id is a second
\* pre-existing list some of the other factories capture.
ObjId == 1
Obj2Id == 2

\* Contents the captured lists may start with ([1, 2, 3] in the test).
Contents == {<<1, 2, 3>>, <<>>}
Contents2 == {<<1, 2, 3>>, <<4>>}

Producers == {"shared", "copy", "alt", "push", "sameThenFresh",
              "freshThenCached", "raiseAlways", "raiseSecond"}

\* ---------------------------------------------------------------- factories
\* A factory invoked for the (n+1)-th time, holding cache c, on heap h gives
\* an outcome: the exception it raises (NoExc when it returns), the identity
\* of the object it returns, and the heap and cache it leaves.

Returns(v, h, c) == [err |-> NoExc, val |-> v, heap |-> h, cache |-> c]
Raises(e, h, c) == [err |-> e, val |-> None, heap |-> h, cache |-> c]

\* copy.deepcopy of a list of integers: a new object with the same contents.
DeepCopy(h, id) == Append(h, h[id])
NewId(h) == Len(h) + 1

\* lambda: obj
Shared(n, c, h) == Returns(ObjId, h, c)

\* lambda: deepcopy(obj)
Copy(n, c, h) == Returns(NewId(h), DeepCopy(h, ObjId), c)

\* alternates between two pre-existing lists
Alt(n, c, h) == Returns(IF n % 2 = 0 THEN ObjId ELSE Obj2Id, h, c)

\* appends to a pre-existing list and returns that list
Push(n, c, h) == Returns(Obj2Id, [h EXCEPT ![Obj2Id] = Append(@, 0)], c)

\* the same object on its first two calls, a fresh one afterwards
SameThenFresh(n, c, h) == IF n < 2 THEN Shared(n, c, h) ELSE Copy(n, c, h)

\* a fresh object on its first call, a cached one afterwards
FreshThenCached(n, c, h) ==
    IF n = 0 THEN Copy(n, c, h)
    ELSE IF c = None THEN Returns(NewId(h), DeepCopy(h, ObjId), NewId(h))
    ELSE Returns(c, h, c)

\* raises on every call
RaiseAlways(n, c, h) == Raises(<<"ValueError", n>>, h, c)

\* returns obj on its 1st, 3rd, ... call and raises on its 2nd, 4th, ...
RaiseSecond(n, c, h) ==
    IF n % 2 = 0 THEN Shared(n, c, h) ELSE Raises(<<"KeyError", n>>, h, c)

\* factory()
Invoke(p, n, c, h) ==
    CASE p = "shared" -> Shared(n, c, h)
      [] p = "copy" -> Copy(n, c, h)
      [] p = "alt" -> Alt(n, c, h)
      [] p = "push" -> Push(n, c, h)
      [] p = "sameThenFresh" -> SameThenFresh(n, c, h)
      [] p = "freshThenCached" -> FreshThenCached(n, c, h)
      [] p = "raiseAlways" -> RaiseAlways(n, c, h)
      [] p = "raiseSecond" -> RaiseSecond(n, c, h)

\* The outcome of invoking the argument of is_singleton in the current state.
Outcome == Invoke(factory, ncalls[factory], cache[factory], heap)

\* What an invocation leaves behind in the factory and in the history.
Invoked(r) ==
    /\ heap' = r.heap
    /\ cache' = [cache EXCEPT ![factory] = r.cache]
    /\ ncalls' = [ncalls EXCEPT ![factory] = @ + 1]
    /\ log' = Append(log, [n |-> ncalls[factory], err |-> r.err, val |-> r.val])

\* The record a finished call leaves in the history: its argument, how often
\* the argument had been invoked before, the invocations made (v[k] is what
\* the k-th returned), and the boolean returned or the exception raised.
Entry(res, e, l) ==
    [p |-> factory, n |-> l[1].n, calls |-> Len(l),
     v |-> [k \in 1..Len(l) |-> l[k].val], res |-> res, exc |-> e]

\* An exception raised inside is_singleton leaves it: nothing catches it.
Propagate(r) ==
    /\ pc' = "raised"
    /\ exc' = r.err
    /\ trace' = Append(trace, Entry(NoResult, r.err, log'))
    /\ UNCHANGED <<x, y, result>>

\* ------------------------------------------------------------- is_singleton

\* x == y: equality of contents instead of identity
Is_Eq(a, b) == heap[a] = heap[b]

\* x is not y
Is_Not(a, b) == a # b

\* x is y
Is(a, b) == a = b

\* A caller calls is_singleton(p): a new frame, x and y unbound.
Call(p) ==
    /\ pc \in {"idle", "returned", "raised"}
    /\ Len(trace) < MaxChecks
    /\ pc' = "l11"
    /\ factory' = p
    /\ x' = None
    /\ y' = None
    /\ result' = NoResult
    /\ exc' = NoExc
    /\ log' = <<>>
    /\ UNCHANGED <<heap, ncalls, cache, trace>>

\* try: x = factory() / except: return False
Line11_Catch ==
    /\ pc = "l11"
    /\ LET r == Outcome IN
         /\ Invoked(r)
         /\ IF r.err # NoExc
              THEN /\ result' = <<FALSE>>
                   /\ pc' = "returned"
                   /\ trace' = Append(trace, Entry(result', NoExc, log'))
                   /\ UNCHANGED <<x, y, exc>>
              ELSE /\ x' = r.val
                   /\ pc' = "l12"
                   /\ UNCHANGED <<y, result, exc, trace>>
    /\ UNCHANGED factory

\* try: x = factory() / except: pass -- the failure is dropped and line 12 runs
Line11_Swallow ==
    /\ pc = "l11"
    /\ LET r == Outcome IN
         /\ Invoked(r)
         /\ x' = r.val
         /\ pc' = "l12"
         /\ UNCHANGED <<y, result, exc, trace>>
    /\ UNCHANGED factory

\* x = factory()
Line11 ==
    /\ pc = "l11"
    /\ LET r == Outcome IN
         /\ Invoked(r)
         /\ IF r.err # NoExc
              THEN Propagate(r)
              ELSE /\ x' = r.val
                   /\ pc' = "l12"
                   /\ UNCHANGED <<y, result, exc, trace>>
    /\ UNCHANGED factory

\* y = x: the factory is not invoked a second time
Line12_Reuse ==
    /\ pc = "l12"
    /\ y' = x
    /\ pc' = "l13"
    /\ UNCHANGED <<heap, ncalls, cache, factory, x, result, exc, log, trace>>

\* y = factory()
Line12 ==
    /\ pc = "l12"
    /\ LET r == Outcome IN
         /\ Invoked(r)
         /\ IF r.err # NoExc
              THEN Propagate(r)
              ELSE /\ y' = r.val
                   /\ pc' = "l13"
                   /\ UNCHANGED <<x, result, exc, trace>>
    /\ UNCHANGED factory

\* def is_singleton(factory, seen=[]): the default list survives the call;
\* return x is y and x not in seen
Line13_Seen ==
    /\ pc = "l13"
    /\ result' = <<Is(x, y) /\ \A i \in DOMAIN trace :
                                 \A k \in DOMAIN trace[i].v : trace[i].v[k] # x>>
    /\ pc' = "returned"
    /\ trace' = Append(trace, Entry(result', NoExc, log))
    /\ UNCHANGED <<heap, ncalls, cache, factory, x, y, exc, log>>

\* the boolean of the previous call is remembered and returned again
Line13_Memo ==
    /\ pc = "l13"
    /\ result' = IF trace # <<>> /\ trace[Len(trace)].res # NoResult
                   THEN trace[Len(trace)].res
                   ELSE <<Is(x, y)>>
    /\ pc' = "returned"
    /\ trace' = Append(trace, Entry(result', NoExc, log))
    /\ UNCHANGED <<heap, ncalls, cache, factory, x, y, exc, log>>

\* x.append(0); return len(x) == len(y): identity tested by mutating x
Line13_Mutating ==
    /\ pc = "l13"
    /\ heap' = [heap EXCEPT ![x] = Append(@, 0)]
    /\ result' = <<Len(heap'[x]) = Len(heap'[y])>>
    /\ pc' = "returned"
    /\ trace' = Append(trace, Entry(result', NoExc, log))
    /\ UNCHANGED <<ncalls, cache, factory, x, y, exc, log>>

\* return x is y
Line13 ==
    /\ pc = "l13"
    /\ result' = <<Is(x, y)>>
    /\ pc' = "returned"
    /\ trace' = Append(trace, Entry(result', NoExc, log))
    /\ UNCHANGED <<heap, ncalls, cache, factory, x, y, exc, log>>

Init ==
    /\ heap \in {<<c1, c2>> : c1 \in Contents, c2 \in Contents2}
    /\ ncalls = [p \in Producers |-> 0]
    /\ cache = [p \in Producers |-> None]
    /\ pc = "idle"
    /\ factory = "shared"
    /\ x = None
    /\ y = None
    /\ result = NoResult
    /\ exc = NoExc
    /\ log = <<>>
    /\ trace = <<>>

Next ==
    \/ \E p \in Producers : Call(p)
    \/ Line11
    \/ Line12
    \/ Line13

Spec == Init /\ [][Next]_vars

TypeOK ==
    /\ pc \in {"idle", "l11", "l12", "l13", "returned", "raised"}
    /\ factory \in Producers
    /\ x \in 0..Len(heap)
    /\ y \in 0..Len(heap)
    /\ result \in {NoResult, <<TRUE>>, <<FALSE>>}
    /\ Len(trace) <= MaxChecks

\* ------------------------------------------------------------------ claims

Last(s) == s[Len(s)]
Failed(l) == {k \in DOMAIN l : l[k].err # NoExc}

\* C1: a call that returns gives true exactly when the object its first
\* invocation of the factory returned and the object its second invocation
\* returned are the same object, whatever their contents.
C1_IdentityIff ==
    pc = "returned" =>
        /\ Len(log) = 2
        /\ result \in {<<TRUE>>, <<FALSE>>}
        /\ (result = <<TRUE>>) <=> (log[1].val = log[2].val)

\* false although the two objects have equal contents, after a call that gave true
C1_Witness ==
    /\ pc = "returned"
    /\ result = <<FALSE>>
    /\ log[1].val # log[2].val
    /\ heap[log[1].val] = heap[log[2].val]
    /\ \E i \in DOMAIN trace : trace[i].res = <<TRUE>>

\* C2: for the factory that returns one captured, pre-existing object on
\* every call (lambda: obj), is_singleton returns true.
C2_SharedIsTrue ==
    (pc = "returned" /\ factory = "shared") => result = <<TRUE>>

\* lambda: obj checked with obj other than [1, 2, 3]
C2_Witness ==
    /\ pc = "returned"
    /\ factory = "shared"
    /\ heap[ObjId] = <<>>
    /\ x = ObjId

\* C3: for the factory that deep-copies obj on each call, is_singleton
\* returns false, although the two copies are equal by value to each other
\* and to obj.
C3_CopyIsFalse ==
    (pc = "returned" /\ factory = "copy") =>
        /\ result = <<FALSE>>
        /\ x # y
        /\ heap[x] = heap[y]
        /\ heap[x] = heap[ObjId]

C3_Witness ==
    /\ pc = "returned"
    /\ factory = "copy"
    /\ heap[ObjId] = <<1, 2, 3>>
    /\ heap[x] = <<1, 2, 3>>
    /\ heap[y] = <<1, 2, 3>>

\* Factories that return the same object on every call, or a distinct new
\* object on every call.
Deterministic == {"shared", "push", "copy"}

\* C4: all checks of one factory that is deterministic in its identity
\* behaviour give the same boolean, however many there are and whatever
\* checks of other factories come between them.
C4_RepeatedChecksAgree ==
    \A i, j \in DOMAIN trace :
        (trace[i].p = trace[j].p /\ trace[i].p \in Deterministic)
            => trace[i].res = trace[j].res

\* lambda: obj and lambda: deepcopy(obj) checked twice each, interleaved
C4_Witness ==
    /\ Len(trace) = 4
    /\ trace[1].p = "shared"
    /\ trace[2].p = "copy"
    /\ trace[3].p = "shared"
    /\ trace[4].p = "copy"

\* C5: when an invocation of the factory raises, is_singleton returns no
\* boolean and the exception that leaves it is the one the factory raised;
\* a call in which the factory raised never ends by returning.
C5_FailurePropagates ==
    /\ pc = "raised" =>
        /\ result = NoResult
        /\ exc # NoExc
        /\ exc = Last(log).err
    /\ Failed(log) # {} => (pc = "raised" /\ result = NoResult)

\* the second invocation raised KeyError and that is what the caller sees
C5_Witness ==
    /\ pc = "raised"
    /\ factory = "raiseSecond"
    /\ exc = <<"KeyError", 1>>
    /\ x = ObjId

\* C6: a step of is_singleton changes a pre-existing object only when it is
\* an invocation of a factory that itself mutates (here "push", and only the
\* list it appends to); objects are created only by factory invocations; the
\* comparison and return change neither the heap nor any factory's state; no
\* object disappears.
C6_NoSideEffects ==
    [][ /\ Len(heap') >= Len(heap)
        /\ \A i \in DOMAIN heap :
              heap'[i] # heap[i] =>
                  (pc \in {"l11", "l12"} /\ factory = "push" /\ i = Obj2Id)
        /\ Len(heap') > Len(heap) => pc \in {"l11", "l12"}
        /\ pc = "l13" => UNCHANGED <<heap, ncalls, cache>> ]_vars

\* after both checks of test_exercise obj is still [1, 2, 3]
C6_Witness ==
    /\ Len(trace) = 2
    /\ trace[1].p = "shared"
    /\ trace[2].p = "copy"
    /\ pc = "returned"
    /\ heap[ObjId] = <<1, 2, 3>>
    /\ Len(heap) = 4

\* C7: a call that returns has invoked the factory exactly twice, the second
\* invocation after the first has returned (it finds the factory as the first
\* left it), x holding what the first returned and y what the second
\* returned, and the boolean returned is the comparison of x with y.
C7_TwoSequentialInvocations ==
    /\ pc = "l12" => (Len(log) = 1 /\ x = log[1].val /\ y = None)
    /\ pc \in {"l13", "returned"} =>
        /\ Len(log) = 2
        /\ log[2].n = log[1].n + 1
        /\ ncalls[factory] = log[1].n + 2
        /\ x = log[1].val
        /\ y = log[2].val
    /\ pc = "returned" => result = <<x = y>>

\* the second invocation ran on the factory as the first left it and filled
\* its cache
C7_Witness ==
    /\ pc = "returned"
    /\ factory = "freshThenCached"
    /\ log[1].n = 0
    /\ cache[factory] = y
    /\ y # None

\* What a check of factory p returns when p has been invoked n times before,
\* by p alone.
Expected(p, n) ==
    CASE p \in {"shared", "push"} -> <<TRUE>>
      [] p \in {"copy", "alt"} -> <<FALSE>>
      [] p = "sameThenFresh" -> <<n = 0>>
      [] p = "freshThenCached" -> <<n # 0>>
      [] p \in {"raiseAlways", "raiseSecond"} -> NoResult

\* C8: the outcome of a check is decided by its factory alone, not by the
\* checks of other factories made before it; lambda: obj gives true and
\* lambda: deepcopy(obj) gives false in whatever order they are checked.
C8_ChecksIndependent ==
    \A i \in DOMAIN trace : trace[i].res = Expected(trace[i].p, trace[i].n)

\* shared checked before copy and again after it
C8_Witness ==
    \E i, j, k \in DOMAIN trace :
        /\ i < j /\ j < k
        /\ trace[i].p = "shared" /\ trace[i].res = <<TRUE>>
        /\ trace[j].p = "copy" /\ trace[j].res = <<FALSE>>
        /\ trace[k].p = "shared" /\ trace[k].res = <<TRUE>>

Stateful == {"sameThenFresh", "freshThenCached"}

\* C9: for a factory whose identity behaviour changes over time, the boolean
\* of each check is the comparison of the two objects that check obtained,
\* whatever the factory returned in other checks.
C9_OnlyOwnInvocations ==
    \A i \in DOMAIN trace :
        trace[i].p \in Stateful =>
            /\ trace[i].calls = 2
            /\ trace[i].res = <<trace[i].v[1] = trace[i].v[2]>>

\* true for a factory that later returns a different object, and two checks
\* of one factory with different results
C9_Witness ==
    \E i, j \in DOMAIN trace :
        /\ i < j
        /\ trace[i].p = "sameThenFresh" /\ trace[j].p = "sameThenFresh"
        /\ trace[i].res = <<TRUE>>
        /\ trace[j].res = <<FALSE>>
        /\ trace[j].v[1] # trace[i].v[1]

\* C10: a call that ends by an exception has invoked the factory once when
\* the first invocation raised, and twice when only the second raised.
C10_NoInvocationAfterFailure ==
    pc = "raised" =>
        \/ (Len(log) = 1 /\ Failed(log) = {1})
        \/ (Len(log) = 2 /\ Failed(log) = {2})

\* one call failed on its first invocation, another on its second
C10_Witness ==
    /\ pc = "raised"
    /\ \E i, j \in DOMAIN trace :
          /\ trace[i].exc # NoExc /\ trace[i].calls = 1
          /\ trace[j].exc # NoExc /\ trace[j].calls = 2

====
